---------------------------- MODULE Spec2Model ----------------------------
(***************************************************************************)
(* Mediator Bot API (src/main.py): POST /chat forwards the last messages   *)
(* of a conversation to a completion service and classifies the returned   *)
(* text; GET / reports whether the completion client is configured.        *)
(*                                                                         *)
(* Texts are sequences of one-character strings, so that find, rfind,      *)
(* slicing, strip, the substring test and JSON decoding are computed on    *)
(* characters as the code computes them.                                   *)
(***************************************************************************)
EXTENDS Integers, Sequences, FiniteSets, TLC

(***************************************************************************)
(* Bounds of the model.                                                    *)
(***************************************************************************)
\* longest message list a request carries (SpecPrompt)
MaxMsgs == 6
\* most segments an upstream text is built from (Spec)
MaxSegs == 3
\* request slots that can be in flight at once (SpecConc)
NumReqs == 2

(***************************************************************************)
(* Program constants.                                                      *)
(***************************************************************************)
\* messages[-5:]
LastN == 5

SENTINEL ==
    <<"[","[","N","O"," ","M","E","D","I","A","T","I","O","N"," ","N","E",
      "E","D","E","D","]","]">>
LISTENING ==
    <<"I","'","m"," ","l","i","s","t","e","n","i","n","g","."," ","C","o",
      "n","t","i","n","u","e"," ","y","o","u","r"," ","c","o","n","v","e",
      "r","s","a","t","i","o","n",".">>
STEP_BACK ==
    <<"L","e","t","'","s"," ","t","a","k","e"," ","a"," ","s","t","e","p",
      " ","b","a","c","k"," ","a","n","d"," ","t","r","y"," ","t","o"," ",
      "u","n","d","e","r","s","t","a","n","d"," ","e","a","c","h"," ","o",
      "t","h","e","r","'","s"," ","p","e","r","s","p","e","c","t","i","v",
      "e","s",".">>
DEFAULT_RESPONSE ==
    <<"L","e","t"," ","m","e"," ","h","e","l","p"," ","m","e","d","i","a",
      "t","e"," ","t","h","i","s"," ","c","o","n","v","e","r","s","a","t",
      "i","o","n",".">>
K_response ==
    <<"r","e","s","p","o","n","s","e">>
K_observations ==
    <<"o","b","s","e","r","v","a","t","i","o","n","s">>
K_feelings ==
    <<"f","e","e","l","i","n","g","s">>
K_needs ==
    <<"n","e","e","d","s">>
K_requests ==
    <<"r","e","q","u","e","s","t","s">>

PROMPT_HEAD ==
    "You are a mediator for a group house chat. I want you to notice messages that are excessively far from being phrased in NVC when conversations are becoming heated. Respond with {\"response\": \"[[NO MEDIATION NEEDED]]\"} when the convo is ok. Respond as a mediator and with a suggested NVC translation in other cases.\n"
PROMPT_TAIL ==
    "\n\nThink step by step, if mediation is needed return a JSON like this: {\"response\": \"I notice some tension here. Let me help translate this using NVC.\", \"observations\": \"I observe that harsh words were used\", \"feelings\": \"There seems to be frustration and hurt\", \"needs\": \"The need for respect and understanding\", \"requests\": \"Could you try expressing your concern without blame?\"}. Otherwise return {\"response\": \"[[NO MEDIATION NEEDED]]\"}."

(***************************************************************************)
(* Python values.  None is a tuple no text equals: a text holds only       *)
(* one-character strings.                                                  *)
(***************************************************************************)
None == <<"None">>

\* a decoded JSON value: a str, None (JSON null) or a dict (its items in
\* the order read)
StrVal(s) == [t |-> "str", s |-> s, items |-> <<>>]
PyNone == [t |-> "NoneType", s |-> <<>>, items |-> <<>>]
DictVal(items) == [t |-> "dict", s |-> <<>>, items |-> items]

(***************************************************************************)
(* str methods, with Python's 0-based indices.                             *)
(***************************************************************************)
\* s.find(c): the lowest index of c, -1 when there is none
Find(s, c) ==
    IF \E i \in 1..Len(s) : s[i] = c
    THEN (CHOOSE i \in 1..Len(s) : s[i] = c /\ \A j \in 1..(i-1) : s[j] # c) - 1
    ELSE -1

\* s.rfind(c): the highest index of c, -1 when there is none
RFind(s, c) ==
    IF \E i \in 1..Len(s) : s[i] = c
    THEN (CHOOSE i \in 1..Len(s) : s[i] = c /\ \A j \in (i+1)..Len(s) : s[j] # c) - 1
    ELSE -1

\* s[a:b] for 0 <= a
Slice(s, a, b) == SubSeq(s, a + 1, IF b > Len(s) THEN Len(s) ELSE b)

\* sub in s
Contains(s, sub) ==
    \E i \in 0..(Len(s) - Len(sub)) : SubSeq(s, i + 1, i + Len(sub)) = sub

IsWs(c) == c \in {" ", "\n", "\t", "\r"}

\* s.strip()
Strip(s) ==
    IF \A i \in 1..Len(s) : IsWs(s[i]) THEN <<>>
    ELSE LET a == CHOOSE i \in 1..Len(s) : ~IsWs(s[i]) /\ \A j \in 1..(i-1) : IsWs(s[j])
             b == CHOOSE i \in 1..Len(s) : ~IsWs(s[i]) /\ \A j \in (i+1)..Len(s) : IsWs(s[j])
         IN  SubSeq(s, a, b)

(***************************************************************************)
(* json.loads on the values these texts can hold: objects, strings and     *)
(* null, with whitespace between tokens.  Numbers, arrays, true, false and *)
(* backslash escapes begin with characters the enumerated texts never      *)
(* place where a value starts, so the decoder rejects them here as it      *)
(* rejects any other unexpected character.  Positions are 1-based.         *)
(***************************************************************************)
DecodeError == [ok |-> FALSE, pos |-> 0, val |-> PyNone]
Decoded(pos, val) == [ok |-> TRUE, pos |-> pos, val |-> val]

RECURSIVE SkipWs(_, _)
SkipWs(s, i) == IF i <= Len(s) /\ IsWs(s[i]) THEN SkipWs(s, i + 1) ELSE i

\* the index of the quote closing a string whose first character is at i;
\* 0 when the string is unterminated or holds a control character
RECURSIVE ScanString(_, _)
ScanString(s, i) ==
    IF i > Len(s) THEN 0
    ELSE IF s[i] = "\"" THEN i
    ELSE IF s[i] \in {"\n", "\t", "\r"} THEN 0
    ELSE ScanString(s, i + 1)

StartsWith(s, i, lit) ==
    i + Len(lit) - 1 <= Len(s) /\ SubSeq(s, i, i + Len(lit) - 1) = lit

RECURSIVE ParseValue(_, _), ParseMembers(_, _, _)
\* a value starting at i
ParseValue(s, i) ==
    IF i > Len(s) THEN DecodeError
    ELSE IF s[i] = "\"" THEN
        LET e == ScanString(s, i + 1)
        IN  IF e = 0 THEN DecodeError
            ELSE Decoded(e + 1, StrVal(SubSeq(s, i + 1, e - 1)))
    ELSE IF s[i] = "{" THEN
        LET j == SkipWs(s, i + 1)
        IN  IF j <= Len(s) /\ s[j] = "}" THEN Decoded(j + 1, DictVal(<<>>))
            ELSE ParseMembers(s, j, <<>>)
    ELSE IF StartsWith(s, i, <<"n","u","l","l">>) THEN Decoded(i + 4, PyNone)
    ELSE DecodeError

\* the members of an object from the key expected at i to the closing brace
ParseMembers(s, i, acc) ==
    IF i > Len(s) \/ s[i] # "\"" THEN DecodeError
    ELSE LET e == ScanString(s, i + 1)
         IN  IF e = 0 THEN DecodeError
             ELSE LET c == SkipWs(s, e + 1)
                  IN  IF c > Len(s) \/ s[c] # ":" THEN DecodeError
                      ELSE LET v == ParseValue(s, SkipWs(s, c + 1))
                           IN  IF ~v.ok THEN DecodeError
                               ELSE LET n == SkipWs(s, v.pos)
                                        acc2 == Append(acc, <<SubSeq(s, i + 1, e - 1), v.val>>)
                                    IN  IF n > Len(s) THEN DecodeError
                                        ELSE IF s[n] = "}" THEN Decoded(n + 1, DictVal(acc2))
                                        ELSE IF s[n] = "," THEN ParseMembers(s, SkipWs(s, n + 1), acc2)
                                        ELSE DecodeError

\* json.loads(s): ok is FALSE where it raises json.JSONDecodeError
JsonLoads(s) ==
    LET v == ParseValue(s, SkipWs(s, 1))
    IN  IF v.ok /\ SkipWs(s, v.pos) = Len(s) + 1 THEN v ELSE DecodeError

\* d.get(key, default): the value of the last item with that key
DictGet(d, key, default) ==
    LET hits == {i \in 1..Len(d.items) : d.items[i][1] = key}
    IN  IF hits = {} THEN default
        ELSE d.items[CHOOSE i \in hits : \A j \in hits : j <= i][2]

(***************************************************************************)
(* MessageResponse and the exceptions of process_mediation.  A call either *)
(* returns a value (exc = "none") or raises the exception it names.        *)
(***************************************************************************)
NoOutcome ==
    [response |-> None, mediation_triggered |-> FALSE, observations |-> None,
     feelings |-> None, needs |-> None, requests |-> None]

Return(v) == [exc |-> "none", ret |-> v]
Raise(e) == [exc |-> e, ret |-> NoOutcome]

\* an Optional[str] field of the model: None, or the text
Optional(v) == IF v.t = "str" THEN v.s ELSE None

\* MessageResponse(response=..., mediation_triggered=..., ...): response must
\* be a str and the four Optional[str] fields a str or None, or pydantic
\* raises ValidationError
MessageResponse(response, mediation_triggered, observations, feelings, needs, requests) ==
    IF /\ response.t = "str"
       /\ \A v \in {observations, feelings, needs, requests} : v.t \in {"str", "NoneType"}
    THEN Return([response |-> response.s,
                 mediation_triggered |-> mediation_triggered,
                 observations |-> Optional(observations),
                 feelings |-> Optional(feelings),
                 needs |-> Optional(needs),
                 requests |-> Optional(requests)])
    ELSE Raise("ValidationError")

ListeningResponse == MessageResponse(StrVal(LISTENING), FALSE, PyNone, PyNone, PyNone, PyNone)
StepBackResponse == MessageResponse(StrVal(STEP_BACK), FALSE, PyNone, PyNone, PyNone, PyNone)
RawTextResponse(ai_response) ==
    MessageResponse(StrVal(ai_response), TRUE, PyNone, PyNone, PyNone, PyNone)

(***************************************************************************)
(* Prompt construction.  A prompt is the sequence of the strings the       *)
(* f-string concatenates.                                                  *)
(***************************************************************************)
\* a slip: the whole list is rendered
LastMessages_all(messages) == messages

\* messages[-5:]
LastMessages(messages) ==
    SubSeq(messages,
           IF Len(messages) > LastN THEN Len(messages) - LastN + 1 ELSE 1,
           Len(messages))

\* f"{msg.role}: {msg.content}"
FormatLine(msg) == <<msg.role, ": ", msg.content>>

\* sep.join(lines)
RECURSIVE Join(_, _)
Join(lines, sep) ==
    IF lines = <<>> THEN <<>>
    ELSE IF Len(lines) = 1 THEN lines[1]
    ELSE lines[1] \o <<sep>> \o Join(Tail(lines), sep)

MessagesText(messages) ==
    LET last == LastMessages(messages)
    IN  Join([i \in 1..Len(last) |-> FormatLine(last[i])], "\n")

BuildPrompt(messages) == <<PROMPT_HEAD>> \o MessagesText(messages) \o <<PROMPT_TAIL>>

(***************************************************************************)
(* What the completion call can do: raise, return a response object with   *)
(* no choices or with no content, or return a text.                        *)
(***************************************************************************)
NoResult == [kind |-> "none", content |-> <<>>]
RaiseResult == [kind |-> "raise", content |-> <<>>]
EmptyChoices == [kind |-> "empty_choices", content |-> <<>>]
NoneContent == [kind |-> "none_content", content |-> <<>>]
TextResult(text) == [kind |-> "text", content |-> text]
FailureKinds == {"raise", "empty_choices", "none_content"}

(***************************************************************************)
(* process_mediation after the call was issued.                            *)
(***************************************************************************)
\* a slip: the JSON extraction comes first, the sentinel test only when no
\* braces are found
Classify_jsonFirst(ai_response) ==
    LET json_start == Find(ai_response, "{")
        json_end == RFind(ai_response, "}") + 1
    IN  IF json_start # -1 /\ json_end > json_start
        THEN LET parsed_response == JsonLoads(Slice(ai_response, json_start, json_end))
                 d == parsed_response.val
             IN  IF ~parsed_response.ok THEN Raise("JSONDecodeError")
                 ELSE MessageResponse(
                          DictGet(d, K_response, StrVal(DEFAULT_RESPONSE)),
                          TRUE,
                          DictGet(d, K_observations, PyNone),
                          DictGet(d, K_feelings, PyNone),
                          DictGet(d, K_needs, PyNone),
                          DictGet(d, K_requests, PyNone))
        ELSE IF Contains(ai_response, SENTINEL) THEN ListeningResponse
        ELSE RawTextResponse(ai_response)

\* a slip: the sentinel only clears the flag and sets the text; the fields of
\* an extracted object are still copied
Classify_flagOnly(ai_response) ==
    LET json_start == Find(ai_response, "{")
        json_end == RFind(ai_response, "}") + 1
        quiet == Contains(ai_response, SENTINEL)
    IN  IF json_start # -1 /\ json_end > json_start
        THEN LET parsed_response == JsonLoads(Slice(ai_response, json_start, json_end))
                 d == parsed_response.val
             IN  IF ~parsed_response.ok THEN Raise("JSONDecodeError")
                 ELSE MessageResponse(
                          IF quiet THEN StrVal(LISTENING)
                          ELSE DictGet(d, K_response, StrVal(DEFAULT_RESPONSE)),
                          ~quiet,
                          DictGet(d, K_observations, PyNone),
                          DictGet(d, K_feelings, PyNone),
                          DictGet(d, K_needs, PyNone),
                          DictGet(d, K_requests, PyNone))
        ELSE IF quiet THEN ListeningResponse
        ELSE RawTextResponse(ai_response)

\* the body of the inner try: the sentinel test, then the JSON extraction
Classify(ai_response) ==
    IF Contains(ai_response, SENTINEL) THEN ListeningResponse
    ELSE LET json_start == Find(ai_response, "{")
             json_end == RFind(ai_response, "}") + 1
         IN  IF json_start # -1 /\ json_end > json_start
             THEN LET parsed_response == JsonLoads(Slice(ai_response, json_start, json_end))
                      d == parsed_response.val
                  IN  IF ~parsed_response.ok THEN Raise("JSONDecodeError")
                      ELSE MessageResponse(
                               DictGet(d, K_response, StrVal(DEFAULT_RESPONSE)),
                               TRUE,
                               DictGet(d, K_observations, PyNone),
                               DictGet(d, K_feelings, PyNone),
                               DictGet(d, K_needs, PyNone),
                               DictGet(d, K_requests, PyNone))
             ELSE RawTextResponse(ai_response)

\* a slip: no handler for the decode error
CaughtByInner_never(exc) == FALSE

\* except json.JSONDecodeError
CaughtByInner(exc) == exc = "JSONDecodeError"

\* the inner try with its handler
InnerTry(ai_response) ==
    LET r == Classify(ai_response)
    IN  IF CaughtByInner(r.exc) THEN RawTextResponse(ai_response) ELSE r

\* the body of the outer try: the call, reading its content, the inner try
OuterBody(res) ==
    IF res.kind = "raise" THEN Raise("APIError")
    ELSE IF res.kind = "empty_choices" THEN Raise("IndexError")
    ELSE IF res.kind = "none_content" THEN Raise("AttributeError")
    ELSE InnerTry(Strip(res.content))

\* a slip: only the call's own error is caught
CaughtByOuter_apiOnly(exc) == exc = "APIError"

\* except Exception
CaughtByOuter(exc) ==
    exc \in {"APIError", "IndexError", "AttributeError", "JSONDecodeError", "ValidationError"}

\* the outer try with its handler
OuterTry(res) ==
    LET r == OuterBody(res)
    IN  IF CaughtByOuter(r.exc) THEN StepBackResponse ELSE r

(***************************************************************************)
(* State.                                                                  *)
(***************************************************************************)
Reqs == 1..NumReqs

VARIABLES
    cerebras_client,   \* the module's client: None, or the Cerebras client
    pc,                \* per request: "idle", "calling", "done", "raised"
    messages,          \* per request: request.messages
    prompt,            \* per request: the prompt sent to the completion call
    calls,             \* per request: completion calls issued
    result,            \* per request: what the completion call did
    outcome,           \* per request: the MessageResponse returned
    root_response      \* the last body GET / answered with

vars == <<cerebras_client, pc, messages, prompt, calls, result, outcome, root_response>>

Client == <<"Cerebras">>
NoPrompt == <<>>
NoReply == [message |-> "", ai_enabled |-> FALSE]

\* the module is loaded: the client exists when CEREBRAS_API_KEY is set
Init ==
    /\ cerebras_client \in {None, Client}
    /\ pc = [r \in Reqs |-> "idle"]
    /\ messages = [r \in Reqs |-> <<>>]
    /\ prompt = [r \in Reqs |-> NoPrompt]
    /\ calls = [r \in Reqs |-> 0]
    /\ result = [r \in Reqs |-> NoResult]
    /\ outcome = [r \in Reqs |-> NoOutcome]
    /\ root_response = NoReply

\* a slip: the availability test is missing
Available_always(client) == TRUE

\* the test `if not cerebras_client` negated
Available(client) == client # None

\* POST /chat arrives with one of the lists; process_mediation runs up to the completion
\* call, or returns at once when there is no client
Chat(r, lists) ==
    /\ pc[r] = "idle"
    /\ \E msgs \in lists :
           /\ messages' = [messages EXCEPT ![r] = msgs]
           /\ IF ~Available(cerebras_client)
              THEN /\ outcome' = [outcome EXCEPT ![r] = ListeningResponse.ret]
                   /\ pc' = [pc EXCEPT ![r] = "done"]
                   /\ UNCHANGED <<prompt, calls>>
              ELSE /\ prompt' = [prompt EXCEPT ![r] = BuildPrompt(msgs)]
                   /\ calls' = [calls EXCEPT ![r] = calls[r] + 1]
                   /\ pc' = [pc EXCEPT ![r] = "calling"]
                   /\ UNCHANGED outcome
    /\ UNCHANGED <<cerebras_client, result, root_response>>

\* a slip: a failed call is issued a second time
Complete_retry(r, results) ==
    /\ pc[r] = "calling"
    /\ \E res \in results :
           /\ res.kind = "raise" \/ cerebras_client # None
           /\ result' = [result EXCEPT ![r] = res]
           /\ IF res.kind \in FailureKinds /\ calls[r] < 2
              THEN /\ calls' = [calls EXCEPT ![r] = calls[r] + 1]
                   /\ UNCHANGED <<pc, outcome>>
              ELSE /\ UNCHANGED calls
                   /\ LET ret == OuterTry(res)
                      IN  IF ret.exc = "none"
                          THEN /\ outcome' = [outcome EXCEPT ![r] = ret.ret]
                               /\ pc' = [pc EXCEPT ![r] = "done"]
                          ELSE /\ pc' = [pc EXCEPT ![r] = "raised"]
                               /\ UNCHANGED outcome
    /\ UNCHANGED <<cerebras_client, messages, prompt, root_response>>

\* a slip: the text read from the call is kept in a module-level name, so
\* every request waiting on its call takes the one that arrived
Complete_shared(r, results) ==
    /\ pc[r] = "calling"
    /\ \E res \in results :
           /\ res.kind = "raise" \/ cerebras_client # None
           /\ LET ret == OuterTry(res)
                  waiting == {q \in Reqs : pc[q] = "calling"}
              IN  /\ result' = [q \in Reqs |-> IF q \in waiting THEN res ELSE result[q]]
                  /\ outcome' = [q \in Reqs |->
                                   IF q \in waiting /\ ret.exc = "none" THEN ret.ret
                                   ELSE outcome[q]]
                  /\ pc' = [q \in Reqs |->
                              IF q \in waiting
                              THEN (IF ret.exc = "none" THEN "done" ELSE "raised")
                              ELSE pc[q]]
    /\ UNCHANGED <<cerebras_client, messages, prompt, calls, root_response>>

\* the completion call of request r ends in one of the results (a call on a
\* missing client can only raise); process_mediation runs to its return
Complete(r, results) ==
    /\ pc[r] = "calling"
    /\ \E res \in results :
           /\ res.kind = "raise" \/ cerebras_client # None
           /\ result' = [result EXCEPT ![r] = res]
           /\ LET ret == OuterTry(res)
              IN  IF ret.exc = "none"
                  THEN /\ outcome' = [outcome EXCEPT ![r] = ret.ret]
                       /\ pc' = [pc EXCEPT ![r] = "done"]
                  ELSE /\ pc' = [pc EXCEPT ![r] = "raised"]
                       /\ UNCHANGED outcome
    /\ UNCHANGED <<cerebras_client, messages, prompt, calls, root_response>>

\* the HTTP response of request r is sent and the request's values dropped
Reply(r) ==
    /\ pc[r] \in {"done", "raised"}
    /\ pc' = [pc EXCEPT ![r] = "idle"]
    /\ messages' = [messages EXCEPT ![r] = <<>>]
    /\ prompt' = [prompt EXCEPT ![r] = NoPrompt]
    /\ calls' = [calls EXCEPT ![r] = 0]
    /\ result' = [result EXCEPT ![r] = NoResult]
    /\ outcome' = [outcome EXCEPT ![r] = NoOutcome]
    /\ UNCHANGED <<cerebras_client, root_response>>

\* GET /
Root ==
    /\ root_response' = [message |-> "Mediator Bot API",
                         ai_enabled |-> cerebras_client # None]
    /\ UNCHANGED <<cerebras_client, pc, messages, prompt, calls, result, outcome>>

\* the status POST /chat answers with: 500 when process_mediation raised
HttpStatus(r) == IF pc[r] = "raised" THEN 500 ELSE 200

(***************************************************************************)
(* Inputs.                                                                 *)
(***************************************************************************)
Msgs ==
    {[role |-> "alice", content |-> "You never listen!"],
     [role |-> "bob", content |-> "whatever"]}

\* the message lists of at most n messages
MsgLists(n) == UNION {[1..k -> Msgs] : k \in 0..n}

\* the pieces upstream texts are built from
Segments ==
    {<<"{">>, <<"}">>, <<" ">>, <<"\n">>, <<"x">>, <<",">>,
     SENTINEL,
     \* "response":"R"
     <<"\"","r","e","s","p","o","n","s","e","\"",":","\"","R","\"">>,
     \* "observations":"O"
     <<"\"","o","b","s","e","r","v","a","t","i","o","n","s","\"",":","\"",
       "O","\"">>,
     \* "response":null
     <<"\"","r","e","s","p","o","n","s","e","\"",":","n","u","l","l">>,
     \* "needs":{}
     <<"\"","n","e","e","d","s","\"",":","{","}">>,
     \* {"response":"
     <<"{","\"","r","e","s","p","o","n","s","e","\"",":","\"">>,
     \* "}
     <<"\"","}">>,
     \* {"response":"R","observations":"O","feelings":"F","needs":"N","requests":"Q"}
     <<"{","\"","r","e","s","p","o","n","s","e","\"",":","\"","R","\"",",",
       "\"","o","b","s","e","r","v","a","t","i","o","n","s","\"",":","\"",
       "O","\"",",","\"","f","e","e","l","i","n","g","s","\"",":","\"","F",
       "\"",",","\"","n","e","e","d","s","\"",":","\"","N","\"",",","\"","r",
       "e","q","u","e","s","t","s","\"",":","\"","Q","\"","}">>}

RECURSIVE Flatten(_)
Flatten(ss) == IF ss = <<>> THEN <<>> ELSE Head(ss) \o Flatten(Tail(ss))

\* the texts of at most n segments
Texts(n) == {Flatten(ss) : ss \in UNION {[1..k -> Segments] : k \in 0..n}}

Failures == {RaiseResult, EmptyChoices, NoneContent}

\* every behaviour of the completion call
AllResults == Failures \cup {TextResult(t) : t \in Texts(MaxSegs)}

\* a behaviour of each kind
FewResults ==
    {RaiseResult, TextResult(SENTINEL), TextResult(<<"x">>), TextResult(<<"{", "}">>)}

AllMsgLists == MsgLists(MaxMsgs)
FewMsgLists == MsgLists(1)

(***************************************************************************)
(* Specifications.                                                         *)
(***************************************************************************)
\* one request at a time
OneReq == {CHOOSE r \in Reqs : TRUE}

\* one request at a time, every behaviour of the completion call
Next ==
    \/ \E r \in OneReq : Chat(r, FewMsgLists)
    \/ \E r \in OneReq : Complete(r, AllResults)
    \/ \E r \in OneReq : Reply(r)

Spec == Init /\ [][Next]_vars

\* one request at a time, every message list
NextPrompt ==
    \/ \E r \in OneReq : Chat(r, AllMsgLists)
    \/ \E r \in OneReq : Complete(r, FewResults)
    \/ \E r \in OneReq : Reply(r)
    \/ Root

SpecPrompt == Init /\ [][NextPrompt]_vars

\* requests in flight together
NextConc ==
    \/ \E r \in Reqs : Chat(r, FewMsgLists)
    \/ \E r \in Reqs : Complete(r, FewResults)
    \/ \E r \in Reqs : Reply(r)
    \/ Root

SpecConc == Init /\ [][NextConc]_vars

(***************************************************************************)
(* Properties.  They state the text conditions on their own terms          *)
(* (quantifiers over positions), not through Find and RFind.               *)
(***************************************************************************)
Returned(r) == pc[r] \in {"done", "raised"}
GotText(r) == Returned(r) /\ result[r].kind = "text"

\* the outcome {response: text, mediationTriggered: flag}, no NVC field
Plain(text, flag) ==
    [response |-> text, mediation_triggered |-> flag, observations |-> None,
     feelings |-> None, needs |-> None, requests |-> None]

NVCFields == {"observations", "feelings", "needs", "requests"}
KeyOf(f) ==
    CASE f = "observations" -> K_observations
      [] f = "feelings" -> K_feelings
      [] f = "needs" -> K_needs
      [] f = "requests" -> K_requests

\* some "{" stands before some "}"
BracePair(s) ==
    \E i \in 1..Len(s) : s[i] = "{" /\ \E j \in (i+1)..Len(s) : s[j] = "}"

\* the substring from the first "{" to the last "}"
Between(s) ==
    LET a == CHOOSE i \in 1..Len(s) : s[i] = "{" /\ \A k \in 1..(i-1) : s[k] # "{"
        b == CHOOSE j \in 1..Len(s) : s[j] = "}" /\ \A k \in (j+1)..Len(s) : s[k] # "}"
    IN  SubSeq(s, a, b)

HasKey(d, key) == \E i \in 1..Len(d.items) : d.items[i][1] = key

\* an outcome field as the Python value it holds
FieldValue(x) == IF x = None THEN PyNone ELSE StrVal(x)

\* C1: whatever the completion call does (a text, a response object without
\* choices or content, an exception), process_mediation ends by returning
\* one MessageResponse; no exception escapes it, and POST /chat answers 200.
C1_NeverRaises ==
    \A r \in Reqs :
        /\ pc[r] # "raised"
        /\ HttpStatus(r) = 200
        /\ result[r] # NoResult =>
               /\ pc[r] = "done"
               /\ outcome[r].response # None
               /\ outcome[r].mediation_triggered \in BOOLEAN

\* C1 witness: the object decoded from the text failed MessageResponse's
\* validation inside the try, and the request still returned an outcome
C1_Witness ==
    \E r \in Reqs :
        /\ pc[r] = "done"
        /\ result[r].kind = "text"
        /\ OuterBody(result[r]).exc = "ValidationError"

\* C2 (as stated): mediation_triggered is false exactly when there is no
\* client, the call failed, or the text contains the sentinel; it is true on
\* every other path.
C2_TriggeredExactly ==
    \A r \in Reqs :
        pc[r] = "done" =>
            (outcome[r].mediation_triggered = FALSE
                <=> \/ cerebras_client = None
                    \/ result[r].kind \in FailureKinds
                    \/ result[r].kind = "text" /\ Contains(result[r].content, SENTINEL))

\* C3 (as stated): a sentinel-free text whose first "{" to last "}" decodes
\* as a JSON object gives mediation_triggered = true, response = the
\* object's "response" (or the default text when the key is absent), and
\* each NVC field = the object's value when the key is present, absent
\* otherwise.
C3_ParsedObject ==
    \A r \in Reqs :
        GotText(r) =>
            LET t == Strip(result[r].content)
            IN  (~Contains(t, SENTINEL) /\ BracePair(t) /\ JsonLoads(Between(t)).ok) =>
                    LET d == JsonLoads(Between(t)).val
                    IN  /\ pc[r] = "done"
                        /\ outcome[r].mediation_triggered = TRUE
                        /\ FieldValue(outcome[r].response) =
                               DictGet(d, K_response, StrVal(DEFAULT_RESPONSE))
                        /\ \A f \in NVCFields :
                               FieldValue(outcome[r][f]) =
                                   (IF HasKey(d, KeyOf(f)) THEN DictGet(d, KeyOf(f), PyNone)
                                    ELSE PyNone)

\* C4: a text containing the sentinel anywhere gives exactly the listening
\* outcome, with no NVC field and nothing of the text in it, also when the
\* text holds a JSON object.
C4_SentinelWins ==
    \A r \in Reqs :
        (GotText(r) /\ Contains(result[r].content, SENTINEL)) =>
            /\ pc[r] = "done"
            /\ outcome[r] = Plain(LISTENING, FALSE)

\* C4 witness: the sentinel sits inside a JSON object that decodes
C4_Witness ==
    \E r \in Reqs :
        /\ pc[r] = "done"
        /\ result[r].kind = "text"
        /\ Contains(result[r].content, SENTINEL)
        /\ BracePair(result[r].content)
        /\ JsonLoads(Between(result[r].content)).ok
        /\ HasKey(JsonLoads(Between(result[r].content)).val, K_response)

\* C5: an outcome with mediation_triggered = false has none of the four
\* NVC fields.
C5_QuietHasNoFields ==
    \A r \in Reqs :
        (pc[r] = "done" /\ ~outcome[r].mediation_triggered) =>
            \A f \in NVCFields : outcome[r][f] = None

\* C5 witness: a quiet outcome for a text that holds an object with NVC
\* fields beside the sentinel
C5_Witness ==
    \E r \in Reqs :
        /\ pc[r] = "done"
        /\ ~outcome[r].mediation_triggered
        /\ result[r].kind = "text"
        /\ BracePair(result[r].content)
        /\ JsonLoads(Between(result[r].content)).ok
        /\ HasKey(JsonLoads(Between(result[r].content)).val, K_observations)

\* C6: without a client every request returns exactly the listening
\* outcome for any message list and issues no completion call, and GET /
\* reports ai_enabled true exactly when the client exists.
C6_NoClient ==
    /\ cerebras_client = None =>
           \A r \in Reqs :
               /\ calls[r] = 0
               /\ prompt[r] = NoPrompt
               /\ result[r] = NoResult
               /\ pc[r] \in {"idle", "done"}
               /\ pc[r] = "done" => outcome[r] = Plain(LISTENING, FALSE)
    /\ root_response # NoReply =>
           (root_response.ai_enabled <=> cerebras_client # None)

\* C6 witness: no client, a request with messages has returned, GET / has
\* answered
C6_Witness ==
    /\ cerebras_client = None
    /\ root_response # NoReply
    /\ \E r \in Reqs : pc[r] = "done" /\ Len(messages[r]) > LastN

\* C7: a failed completion call (an exception, or a response object without
\* choices or content) gives exactly the step-back outcome at once; a
\* request issues the call at most once.
C7_FailureNoRetry ==
    \A r \in Reqs :
        /\ calls[r] <= 1
        /\ result[r].kind \in FailureKinds =>
               /\ pc[r] = "done"
               /\ calls[r] = 1
               /\ outcome[r] = Plain(STEP_BACK, FALSE)

\* C7 witness: the call returned a response object with no content
C7_Witness ==
    \E r \in Reqs : pc[r] = "done" /\ result[r].kind = "none_content" /\ calls[r] = 1

\* C8: a sentinel-free trimmed text with no "{" before a "}", or whose
\* first "{" to last "}" is not valid JSON, gives exactly
\* {response: the trimmed text, mediation_triggered: true}, no NVC field.
C8_RawText ==
    \A r \in Reqs :
        GotText(r) =>
            LET t == Strip(result[r].content)
            IN  (~Contains(t, SENTINEL) /\ (~BracePair(t) \/ ~JsonLoads(Between(t)).ok)) =>
                    /\ pc[r] = "done"
                    /\ outcome[r] = Plain(t, TRUE)

\* C8 witness: braces in order around text that is not valid JSON, with
\* whitespace trimmed off the text
C8_Witness ==
    \E r \in Reqs :
        /\ pc[r] = "done"
        /\ result[r].kind = "text"
        /\ LET t == Strip(result[r].content)
           IN  /\ t # result[r].content
               /\ ~Contains(t, SENTINEL)
               /\ BracePair(t)
               /\ ~JsonLoads(Between(t)).ok

\* the last n elements of a list, in order
Suffix(ms, n) ==
    LET k == IF Len(ms) < n THEN Len(ms) ELSE n
    IN  [i \in 1..k |-> ms[Len(ms) - k + i]]

\* "<role>: <content>" lines, newline-separated, in the order given
RECURSIVE Rendered(_)
Rendered(ms) ==
    IF ms = <<>> THEN <<>>
    ELSE <<ms[1].role, ": ", ms[1].content>>
         \o (IF Len(ms) = 1 THEN <<>> ELSE <<"\n">> \o Rendered(Tail(ms)))

\* C9: the prompt sent is the template around the last 5 messages rendered
\* as "<role>: <content>" lines in their order; every list with the same
\* last-5 suffix gives the same prompt; with a client, every request,
\* the empty list included, issues the call.
C9_PromptFromLastFive ==
    \A r \in Reqs :
        /\ pc[r] = "calling" =>
               /\ prompt[r] = <<PROMPT_HEAD>> \o Rendered(Suffix(messages[r], LastN))
                                \o <<PROMPT_TAIL>>
               /\ \A m \in AllMsgLists :
                      Suffix(m, LastN) = Suffix(messages[r], LastN) =>
                          BuildPrompt(m) = prompt[r]
        /\ (cerebras_client # None /\ pc[r] # "idle") =>
               calls[r] = 1 /\ prompt[r] # NoPrompt

\* C9 witness: a call in flight for a list longer than 5 whose first
\* message differs from the one that follows it
C9_Witness ==
    \E r \in Reqs :
        /\ pc[r] = "calling"
        /\ Len(messages[r]) > LastN
        /\ messages[r][1] # messages[r][2]

\* what request r holds
Local(r) == <<pc[r], messages[r], prompt[r], calls[r], result[r], outcome[r]>>

\* process_mediation run alone
RunAlone(client, res) ==
    IF client = None THEN ListeningResponse.ret ELSE OuterTry(res).ret

\* C10: with requests in flight together, no step changes the client, a
\* step of one request changes nothing another request holds, and a
\* request's outcome is the one its own messages and its own call result
\* give when it runs alone.
C10_Independent ==
    [][ /\ cerebras_client' = cerebras_client
        /\ \A r, q \in Reqs :
               (r # q /\ Local(r)' # Local(r)) => Local(q)' = Local(q)
        /\ \A r \in Reqs :
               pc'[r] = "done" => outcome'[r] = RunAlone(cerebras_client', result'[r])
      ]_vars

\* C10 witness: two requests with different messages returned different
\* outcomes and neither response has been sent
C10_Witness ==
    \E r, q \in Reqs :
        /\ r # q
        /\ pc[r] = "done" /\ pc[q] = "done"
        /\ messages[r] # messages[q]
        /\ outcome[r] # outcome[q]
=============================================================================
